---- MODULE Spec2Model ----
(***************************************************************************)
(* Model of the OKVED phone game: PhoneNormalizer, OkvedRepository,        *)
(* OkvedMatcher and the OkvedPhoneGame facade (src/game.py), and the       *)
(* process entry point (src/main.py).                                      *)
(*                                                                         *)
(* A Python str is a sequence of one-character tokens.  The token "sup2"   *)
(* stands for U+00B2 (superscript two): str.isdigit() accepts it although  *)
(* it is not a decimal digit.  Python's None is the empty tuple and a      *)
(* present value x is the one-element tuple <<x>>.                         *)
(***************************************************************************)
EXTENDS Integers, Sequences, FiniteSets, TLC

VARIABLES raw, normRes, items, seed, outcome, prev, cache, fetches, pc, result, got, built

vars == <<raw, normRes, items, seed, outcome, prev, cache, fetches, pc, result, got, built>>

None == <<>>

Some(x) == <<x>>

\* ---------------------------------------------------------------------
\* Characters and string helpers (Python str methods)
\* ---------------------------------------------------------------------

DecimalDigits == {"0", "1", "2", "3", "4", "5", "6", "7", "8", "9"}

\* ch.isdigit(): decimal digits and other Unicode characters of numeric
\* type Digit, such as U+00B2.
IsDigit(ch) == ch \in DecimalDigits \cup {"sup2"}

IsSpace(ch) == ch = " "

RECURSIVE lstripSpace(_)
lstripSpace(s) ==
    IF s # <<>> /\ IsSpace(Head(s)) THEN lstripSpace(Tail(s)) ELSE s

RECURSIVE rstripSpace(_)
rstripSpace(s) ==
    IF s # <<>> /\ IsSpace(s[Len(s)]) THEN rstripSpace(SubSeq(s, 1, Len(s) - 1)) ELSE s

\* raw.strip()
strip(s) == rstripSpace(lstripSpace(s))

\* s.startswith(p)
startswith(s, p) == Len(s) >= Len(p) /\ SubSeq(s, 1, Len(p)) = p

\* "".join(ch for ch in s if ch.isdigit())
digitsOf(s) == SelectSeq(s, IsDigit)

\* s.isdigit(): non-empty and every character is a digit
isdigitStr(s) == s # <<>> /\ \A i \in 1..Len(s) : IsDigit(s[i])

\* s.lstrip("+")
RECURSIVE lstripPlus(_)
lstripPlus(s) ==
    IF s # <<>> /\ Head(s) = "+" THEN lstripPlus(Tail(s)) ELSE s

\* ---------------------------------------------------------------------
\* PhoneNormalizer
\* ---------------------------------------------------------------------

cleanAnyPlus(r) ==
    (IF \E i \in 1..Len(r) : r[i] = "+" THEN <<"+">> ELSE <<>>) \o digitsOf(strip(r))

_clean(r) ==
    LET s == strip(r)
        has_plus == startswith(s, <<"+">>)
    IN  (IF has_plus THEN <<"+">> ELSE <<>>) \o digitsOf(s)

normalizeDigitsKeep8(plus, digits) ==
    LET length == Len(digits) IN
    IF plus = <<"+">> /\ startswith(digits, <<"7">>) /\ length = 11 THEN Some(<<"+">> \o digits)
    ELSE IF plus = <<>> /\ startswith(digits, <<"8">>) /\ length = 11 THEN Some(<<"+">> \o digits)
    ELSE IF plus = <<>> /\ startswith(digits, <<"7">>) /\ length = 11 THEN Some(<<"+">> \o digits)
    ELSE IF plus = <<>> /\ startswith(digits, <<"9">>) /\ length = 10 THEN Some(<<"+", "7">> \o digits)
    ELSE None

normalizeDigitsNo10(plus, digits) ==
    LET length == Len(digits) IN
    IF plus = <<"+">> /\ startswith(digits, <<"7">>) /\ length = 11 THEN Some(<<"+">> \o digits)
    ELSE IF plus = <<>> /\ startswith(digits, <<"8">>) /\ length = 11 THEN Some(<<"+", "7">> \o Tail(digits))
    ELSE IF plus = <<>> /\ startswith(digits, <<"7">>) /\ length = 11 THEN Some(<<"+">> \o digits)
    ELSE IF plus = <<>> /\ startswith(digits, <<"9">>) /\ length = 10 THEN Some(<<"+">> \o digits)
    ELSE None

_normalize_digits(plus, digits) ==
    LET length == Len(digits) IN
    IF plus = <<"+">> /\ startswith(digits, <<"7">>) /\ length = 11 THEN Some(<<"+">> \o digits)
    ELSE IF plus = <<>> /\ startswith(digits, <<"8">>) /\ length = 11 THEN Some(<<"+", "7">> \o Tail(digits))
    ELSE IF plus = <<>> /\ startswith(digits, <<"7">>) /\ length = 11 THEN Some(<<"+">> \o digits)
    ELSE IF plus = <<>> /\ startswith(digits, <<"9">>) /\ length = 10 THEN Some(<<"+", "7">> \o digits)
    ELSE None

_is_valid_final(p) ==
    /\ startswith(p, <<"+", "7", "9">>)
    /\ Len(p) = 12
    /\ isdigitStr(Tail(p))

\* NormalizationResult(phone, error); an ErrorInfo is represented by its code.
NormalizationResult(p, e) == [phone |-> p, error |-> e]

normalize(r) ==
    LET cleaned == _clean(r)
        hasPlus == startswith(cleaned, <<"+">>)
        plus    == IF hasPlus THEN <<"+">> ELSE <<>>
        digits  == IF hasPlus THEN Tail(cleaned) ELSE cleaned
    IN  IF digits = <<>> THEN NormalizationResult(None, Some("NO_DIGITS"))
        ELSE LET normalized == _normalize_digits(plus, digits) IN
             IF normalized = None THEN NormalizationResult(None, Some("UNSUPPORTED_FORMAT"))
             ELSE IF ~_is_valid_final(normalized[1])
                  THEN NormalizationResult(None, Some("INVALID_NORMALIZED"))
                  ELSE NormalizationResult(Some(normalized[1]), None)

\* ---------------------------------------------------------------------
\* Inputs of normalize: optional lead, a run of digits with at most one
\* separator inside, optional trailing whitespace.
\* ---------------------------------------------------------------------

\* Largest number of digit characters in an input.
MaxDigits == 12

Leads == {<<>>, <<" ">>, <<"+">>, <<" ", "+">>, <<"-", "+">>, <<"+", "+">>}

Trails == {<<>>, <<" ">>}

FirstDigits == {"7", "8", "9", "1"}

SecondDigits == {"9", "1", "sup2"}

LastDigits == {"6", "7", "sup2"}

Separators == {"-", "+", " "}

\* first, second, zeros, last: n digit characters in all
DigitRun(n, first, second, last) ==
    IF n = 0 THEN <<>>
    ELSE IF n = 1 THEN <<first>>
    ELSE IF n = 2 THEN <<first, second>>
    ELSE <<first, second>> \o [i \in 1..(n - 3) |-> "0"] \o <<last>>

DigitRuns ==
    {DigitRun(n, f, s, l) : n \in 0..MaxDigits, f \in FirstDigits, s \in SecondDigits, l \in LastDigits}

InsertAt(s, k, ch) == SubSeq(s, 1, k) \o <<ch>> \o SubSeq(s, k + 1, Len(s))

RemoveAt(s, i) == SubSeq(s, 1, i - 1) \o SubSeq(s, i + 1, Len(s))

\* a digit run as typed: bare, or with one separator after the first
\* character or at the end
Typed(d) ==
    {d} \cup {InsertAt(d, k, sep) : k \in {1, Len(d)} \cap 1..Len(d), sep \in Separators}

RawInputs ==
    UNION {{lead \o t \o trail : t \in Typed(d)} : lead \in Leads, trail \in Trails, d \in DigitRuns}

\* ---------------------------------------------------------------------
\* OkvedMatcher
\* ---------------------------------------------------------------------

OkvedItem(c, n) == [code |-> c, name |-> n]

MatchResult(p, c, n, l, f) ==
    [normalized_phone |-> p, okved_code |-> c, okved_name |-> n,
     match_length |-> l, fallback_used |-> f]

_Candidate(it, l, f) == [item |-> it, match_length |-> l, full_match |-> f]

\* what a call does: it returns a value or raises an exception
Returned(v) == [exc |-> None, ret |-> Some(v)]

Raised(e) == [exc |-> Some(e), ret |-> None]

\* OkvedMatcher._normalize_code
_normalize_code(code) == SelectSeq(code, IsDigit)

Min(a, b) == IF a <= b THEN a ELSE b

\* the while loop of _suffix_length, entered with index i
RECURSIVE suffixLoop(_, _, _, _)
suffixLoop(phone_digits, code_digits, i, max_len) ==
    IF i <= max_len /\ phone_digits[Len(phone_digits) - i + 1] = code_digits[Len(code_digits) - i + 1]
    THEN suffixLoop(phone_digits, code_digits, i + 1, max_len)
    ELSE i - 1

_suffix_length(phone_digits, code_digits) ==
    suffixLoop(phone_digits, code_digits, 1, Min(Len(phone_digits), Len(code_digits)))

\* the for loop of _collect_candidates over the items from index k on
RECURSIVE collectFrom(_, _, _)
collectFrom(its, phone_digits, k) ==
    IF k > Len(its) THEN <<>>
    ELSE LET item == its[k]
             code_digits == _normalize_code(item.code)
             match_length == _suffix_length(phone_digits, code_digits)
             rest == collectFrom(its, phone_digits, k + 1)
         IN  IF code_digits = <<>> THEN rest
             ELSE IF match_length <= 0 THEN rest
             ELSE <<_Candidate(item, match_length, match_length = Len(code_digits))>> \o rest

_collect_candidates(its, phone_digits) == collectFrom(its, phone_digits, 1)

\* tuple comparison (match_length, full_match) > (match_length, full_match)
KeyGreater(a, b) ==
    \/ a.match_length > b.match_length
    \/ a.match_length = b.match_length /\ a.full_match /\ ~b.full_match

\* max(candidates, key=...): the first of the maximal elements
RECURSIVE maxFrom(_, _, _)
maxFrom(candidates, best, k) ==
    IF k > Len(candidates) THEN best
    ELSE maxFrom(candidates, IF KeyGreater(candidates[k], best) THEN candidates[k] ELSE best, k + 1)

RECURSIVE maxLastFrom(_, _, _)
maxLastFrom(candidates, best, k) ==
    IF k > Len(candidates) THEN best
    ELSE maxLastFrom(candidates, IF KeyGreater(best, candidates[k]) THEN best ELSE candidates[k], k + 1)

chooseLast(candidates) == maxLastFrom(candidates, candidates[1], 2)

_choose_best(candidates) == maxFrom(candidates, candidates[1], 2)

\* Width of the model's hash values (CPython: 64 bits).
HashBits == 5

\* Largest hash key of a process (CPython draws the key at start-up
\* unless PYTHONHASHSEED fixes it).
MaxSeed == 2

RECURSIVE Pow2(_)
Pow2(n) == IF n = 0 THEN 1 ELSE 2 * Pow2(n - 1)

CharCode(ch) ==
    IF ch \in DecimalDigits THEN CHOOSE n \in 0..9 : ToString(n) = ch
    ELSE IF ch = "sup2" THEN 10 ELSE 11

\* hash(s) in a process whose hash key is k: a keyed hash of the characters,
\* read as a signed integer of HashBits bits.  It stands for CPython's keyed
\* string hash: a function of the key and the string that takes both signs.
RECURSIVE hashFold(_, _)
hashFold(h, s) ==
    IF s = <<>> THEN h
    ELSE hashFold((h * 7 + CharCode(Head(s)) + 1) % Pow2(HashBits), Tail(s))

hash(k, s) ==
    LET u == hashFold((k * 11 + 5) % Pow2(HashBits), s)
    IN  IF u >= Pow2(HashBits - 1) THEN u - Pow2(HashBits) ELSE u

\* Python list indexing: seq[idx] with idx counted from 0, negative
\* indices counted from the end
IndexValid(its, idx) == idx >= -Len(its) /\ idx < Len(its)

ItemAt(its, idx) == IF idx >= 0 THEN its[idx + 1] ELSE its[Len(its) + idx + 1]

truncIndex(k, digits, its) ==
    LET h == hash(k, digits) IN IF h >= 0 THEN h % Len(its) ELSE -((-h) % Len(its))

\* phone_hash = hash(digits) % len(self._items)
fallbackIndex(k, digits, its) == hash(k, digits) % Len(its)

\* OkvedMatcher.match on a matcher holding its, in a process with hash key k
match(its, normalized_phone, k) ==
    LET digits == lstripPlus(normalized_phone)
        candidates == _collect_candidates(its, digits)
    IN  IF candidates # <<>>
        THEN LET best == _choose_best(candidates) IN
             Returned(MatchResult(normalized_phone, best.item.code, best.item.name,
                                  best.match_length, ~(best.match_length # 0)))
        ELSE LET phone_hash == fallbackIndex(k, digits, its) IN
             IF ~IndexValid(its, phone_hash) THEN Raised("IndexError")
             ELSE LET fallback_item == ItemAt(its, phone_hash) IN
                  Returned(MatchResult(normalized_phone, fallback_item.code,
                                       fallback_item.name, 0, TRUE))

\* OkvedMatcher(items).match(phone), as play does it
constructAndMatch(its, normalized_phone, k) ==
    IF its = <<>> THEN Raised("ValueError") ELSE match(its, normalized_phone, k)

\* ---------------------------------------------------------------------
\* OkvedRepository
\* ---------------------------------------------------------------------

\* What the remote end answers to one fetch: a transport failure, a body
\* advertised above the size limit, a body that is not JSON, JSON that is
\* not an array, or an array of elements.  An element is a dict or not;
\* code and name are str(entry.get(..., "")).
Response(k, d) == [kind |-> k, data |-> d]

JsonEntry(isDict, c, n) == [isDict |-> isDict, code |-> c, name |-> n]

\* requests.get ... response.text
_fetch_json_text(resp) ==
    IF resp.kind \in {"neterr", "toolarge"} THEN Raised("OkvedLoadError") ELSE Returned(resp)

\* json.loads and the isinstance(data, list) check
_parse_json(resp) ==
    IF resp.kind \in {"badjson", "notlist"} THEN Raised("OkvedLoadError") ELSE Returned(resp.data)

\* the for loop of _extract_okved_items over the elements from index k on
RECURSIVE extractFrom(_, _)
extractFrom(data, k) ==
    IF k > Len(data) THEN <<>>
    ELSE LET entry == data[k]
             code == strip(entry.code)
             name == strip(entry.name)
             rest == extractFrom(data, k + 1)
         IN  IF ~entry.isDict THEN rest
             ELSE IF code # <<>> /\ name # <<>> THEN <<OkvedItem(code, name)>> \o rest
             ELSE rest

extractAllowEmpty(data) == Returned(extractFrom(data, 1))

_extract_okved_items(data) ==
    LET its == extractFrom(data, 1)
    IN  IF its = <<>> THEN Raised("OkvedLoadError") ELSE Returned(its)

_load(resp) ==
    LET data_text == _fetch_json_text(resp) IN
    IF data_text.exc # None THEN data_text
    ELSE LET data == _parse_json(data_text.ret[1]) IN
         IF data.exc # None THEN data
         ELSE _extract_okved_items(data.ret[1])

\* get_all on a repository whose _cache is c, the remote end answering resp
\* if it is asked: the new _cache, what the call does, whether it fetched
getAllAlwaysLoad(c, resp) ==
    LET r == _load(resp) IN
    [cache |-> IF r.exc = None THEN r.ret ELSE c, out |-> r, fetched |-> TRUE]

get_all(c, resp) ==
    IF c = None
    THEN LET r == _load(resp) IN
         [cache |-> IF r.exc = None THEN r.ret ELSE c, out |-> r, fetched |-> TRUE]
    ELSE [cache |-> c, out |-> Returned(c[1]), fetched |-> FALSE]

\* ---------------------------------------------------------------------
\* OkvedPhoneGame
\* ---------------------------------------------------------------------

GameResult(e, m) == [error |-> e, match |-> m]

PlayOutcome(r, b) == [res |-> r, built |-> b]

\* play from the try statement on: ga is what repository.get_all() did
playAfterNoEmptyCheck(normalized_phone, ga, k) ==
    IF ga.exc = Some("OkvedLoadError")
    THEN PlayOutcome(Returned(GameResult(Some("OKVED_LOAD_ERROR"), None)), FALSE)
    ELSE IF ga.exc # None THEN PlayOutcome(ga, FALSE)
    ELSE LET m == constructAndMatch(ga.ret[1], normalized_phone, k) IN
         IF m.exc # None THEN PlayOutcome(m, ga.ret[1] # <<>>)
         ELSE PlayOutcome(Returned(GameResult(None, m.ret)), TRUE)

playAfter(normalized_phone, ga, k) ==
    IF ga.exc = Some("OkvedLoadError")
    THEN PlayOutcome(Returned(GameResult(Some("OKVED_LOAD_ERROR"), None)), FALSE)
    ELSE IF ga.exc # None THEN PlayOutcome(ga, FALSE)
    ELSE IF ga.ret[1] = <<>>
    THEN PlayOutcome(Returned(GameResult(Some("OKVED_EMPTY"), None)), FALSE)
    ELSE LET m == constructAndMatch(ga.ret[1], normalized_phone, k) IN
         IF m.exc # None THEN PlayOutcome(m, TRUE)
         ELSE PlayOutcome(Returned(GameResult(None, m.ret)), TRUE)

\* play up to the try statement: TRUE if it returns before get_all
playReturnsEarly(norm_result) == norm_result.error # None \/ norm_result.phone = None

playEarly(norm_result) == PlayOutcome(Returned(GameResult(norm_result.error, None)), FALSE)

\* ---------------------------------------------------------------------
\* Specification of the normalizer: normalize is applied to any input
\* ---------------------------------------------------------------------

Idle(mode) ==
    /\ raw = <<>> /\ normRes = None /\ items = <<>> /\ outcome = None /\ prev = None
    /\ cache = None /\ fetches = 0 /\ result = None /\ got = None /\ built = FALSE
    /\ pc = mode

InitNorm ==
    /\ raw \in RawInputs
    /\ normRes = None /\ items = <<>> /\ outcome = None /\ prev = None
    /\ cache = None /\ fetches = 0 /\ result = None /\ got = None /\ built = FALSE
    /\ pc = "norm" /\ seed = 0

Normalize ==
    /\ normRes = None
    /\ normRes' = Some(normalize(raw))
    /\ UNCHANGED <<raw, items, seed, outcome, prev, cache, fetches, pc, result, got, built>>

NextNorm == Normalize

SpecNorm == InitNorm /\ [][NextNorm]_vars

\* ---------------------------------------------------------------------
\* Specification of the matcher: a matcher is built over a reference list
\* and asked for a normalized phone; the call is repeated in the same
\* process or in a new run of the program
\* ---------------------------------------------------------------------

\* Largest number of entries of a reference list.
MaxItems == 3

Str(ch) == <<ch>>

ItemPool ==
    { OkvedItem(<<"7">>, Str("a")), OkvedItem(<<"0", ".", "7">>, Str("b")),
      OkvedItem(<<"0", "7">>, Str("c")), OkvedItem(<<"1", ".", "0", "7">>, Str("d")),
      OkvedItem(<<"6">>, Str("e")), OkvedItem(<<"A">>, Str("f")) }

SeqsUpTo(S, n) == UNION {[1..m -> S] : m \in 0..n}

ReferenceLists == SeqsUpTo(ItemPool, MaxItems)

Seeds == 0..MaxSeed

MatchInputs ==
    {DigitRun(11, "8", "9", l) : l \in LastDigits}
        \cup {DigitRun(10, "9", s, l) : s \in SecondDigits, l \in LastDigits}

InitMatch ==
    /\ raw \in MatchInputs
    /\ items \in ReferenceLists
    /\ seed \in Seeds
    /\ normRes = None /\ outcome = None /\ prev = None
    /\ cache = None /\ fetches = 0 /\ result = None /\ got = None /\ built = FALSE
    /\ pc = "match"

\* normalize, then OkvedMatcher(items).match(phone)
Match ==
    /\ outcome = None
    /\ normalize(raw).error = None
    /\ normRes' = Some(normalize(raw))
    /\ outcome' = Some(constructAndMatch(items, normalize(raw).phone[1], seed))
    /\ UNCHANGED <<raw, items, seed, prev, cache, fetches, pc, result, got, built>>

\* the same call once more on the same matcher
Repeat ==
    /\ outcome # None
    /\ prev' = outcome
    /\ outcome' = Some(constructAndMatch(items, normRes[1].phone[1], seed))
    /\ UNCHANGED <<raw, normRes, items, seed, cache, fetches, pc, result, got, built>>

\* the same call in another run of the program: the interpreter draws a
\* new hash key
Rerun ==
    \E k \in Seeds :
        /\ outcome # None
        /\ seed' = k
        /\ prev' = outcome
        /\ outcome' = Some(constructAndMatch(items, normRes[1].phone[1], k))
        /\ UNCHANGED <<raw, normRes, items, cache, fetches, pc, result, got, built>>

NextMatch == Match \/ Repeat \/ Rerun

SpecMatch == InitMatch /\ [][NextMatch]_vars

\* ---------------------------------------------------------------------
\* Specification of the game: one process, either running main or using
\* the repository and the facade directly
\* ---------------------------------------------------------------------

\* Largest number of elements of a fetched array.
MaxPayload == 1

\* Largest number of fetches followed in one process.
MaxFetches == 2

JsonPool ==
    { JsonEntry(FALSE, <<>>, <<>>),
      JsonEntry(TRUE, <<" ", "0", ".", "7">>, Str("a")),
      JsonEntry(TRUE, <<" ", " ">>, Str("b")),
      JsonEntry(TRUE, <<"A">>, <<"c", " ">>) }

Responses ==
    {Response(k, <<>>) : k \in {"neterr", "toolarge", "badjson", "notlist"}}
        \cup {Response("array", d) : d \in SeqsUpTo(JsonPool, MaxPayload)}

GameInputs ==
    { <<>>,
      <<"+">> \o DigitRun(11, "8", "9", "7"),
      DigitRun(11, "8", "1", "7"),
      InsertAt(DigitRun(11, "8", "9", "7"), 1, " "),
      DigitRun(11, "7", "9", "sup2") }

\* what an injected repository's get_all may do
InjectedOutcomes ==
    {Raised("OkvedLoadError")} \cup {Returned(l) : l \in SeqsUpTo(ItemPool, 1)}

\* the get_all call of the last operation: the object it was called on, the
\* remote answer if it fetched, and what it did
GetAllRecord(on, resp, out) == [on |-> on, resp |-> resp, out |-> out]

Init == (Idle("start") \/ Idle("api")) /\ seed \in Seeds

\* main.py: repository.get_all() in the try block of the initialisation
MainInit ==
    \E resp \in Responses :
        LET g == get_all(cache, resp) IN
        /\ pc = "start"
        /\ cache' = g.cache
        /\ fetches' = fetches + (IF g.fetched THEN 1 ELSE 0)
        /\ got' = Some(GetAllRecord("repository", IF g.fetched THEN Some(resp) ELSE None, g.out))
        /\ pc' = IF g.out.exc = None THEN "ready" ELSE "exit"
        /\ UNCHANGED <<raw, normRes, items, seed, outcome, prev, result, built>>

\* play on a game over the repository, the remote end answering resp if asked
PlayStep(r, resp) ==
    LET n == normalize(r) IN
    /\ raw' = r
    /\ normRes' = Some(n)
    /\ IF playReturnsEarly(n)
       THEN /\ result' = Some(playEarly(n).res)
            /\ built' = FALSE
            /\ got' = None
            /\ UNCHANGED <<cache, fetches>>
       ELSE LET g == get_all(cache, resp)
                o == playAfter(n.phone[1], g.out, seed)
            IN  /\ cache' = g.cache
                /\ fetches' = fetches + (IF g.fetched THEN 1 ELSE 0)
                /\ got' = Some(GetAllRecord("repository", IF g.fetched THEN Some(resp) ELSE None, g.out))
                /\ result' = Some(o.res)
                /\ built' = o.built
    /\ UNCHANGED <<items, seed, outcome, prev>>

\* main.py: input, game.play, and the assert on the result
MainDone(res) ==
    IF res[1].exc # None THEN "crash"
    ELSE IF res[1].ret[1].error # None THEN "done"
    ELSE IF res[1].ret[1].match # None THEN "done" ELSE "assertfail"

MainPlay ==
    \E r \in GameInputs, resp \in Responses :
        /\ pc = "ready"
        /\ PlayStep(r, resp)
        /\ pc' = MainDone(result')

\* OkvedRepository.get_all called directly
GetAll ==
    \E resp \in Responses :
        LET g == get_all(cache, resp) IN
        /\ pc = "api"
        /\ fetches < MaxFetches
        /\ cache' = g.cache
        /\ fetches' = fetches + (IF g.fetched THEN 1 ELSE 0)
        /\ got' = Some(GetAllRecord("repository", IF g.fetched THEN Some(resp) ELSE None, g.out))
        /\ result' = None
        /\ built' = FALSE
        /\ UNCHANGED <<raw, normRes, items, seed, outcome, prev, pc>>

\* OkvedPhoneGame.play called directly
Play ==
    \E r \in GameInputs, resp \in Responses :
        /\ pc = "api"
        /\ fetches < MaxFetches
        /\ PlayStep(r, resp)
        /\ pc' = pc

\* play on a game built over another repository object
PlayInjected ==
    \E r \in GameInputs, ga \in InjectedOutcomes :
        LET n == normalize(r)
            o == IF playReturnsEarly(n) THEN playEarly(n) ELSE playAfter(n.phone[1], ga, seed)
        IN  /\ pc = "api"
            /\ raw' = r
            /\ normRes' = Some(n)
            /\ result' = Some(o.res)
            /\ built' = o.built
            /\ got' = IF playReturnsEarly(n) THEN None ELSE Some(GetAllRecord("injected", None, ga))
            /\ UNCHANGED <<items, seed, outcome, prev, cache, fetches, pc>>

Next == MainInit \/ MainPlay \/ GetAll \/ Play \/ PlayInjected

Spec == Init /\ [][Next]_vars

\* ---------------------------------------------------------------------
\* Properties of the normalizer (SpecNorm)
\* ---------------------------------------------------------------------

\* ^\+79\d{9}$
Canonical(p) ==
    /\ Len(p) = 12
    /\ p[1] = "+" /\ p[2] = "7" /\ p[3] = "9"
    /\ \A i \in 2..12 : p[i] \in DecimalDigits

AllDigits(s) == \A i \in 1..Len(s) : IsDigit(s[i])

AllDecimal(s) == \A i \in 1..Len(s) : s[i] \in DecimalDigits

Success(p) == NormalizationResult(Some(p), None)

Failure(code) == NormalizationResult(None, Some(code))

\* C1: a successful normalize returns a canonical phone (12 characters,
\* "+79", decimal digits after the plus); a failed one returns no phone and
\* an error; never both, never neither.
C1_Claim ==
    normRes # None =>
        LET n == normRes[1] IN
        /\ (n.error = None) # (n.phone = None)
        /\ n.error = None => Canonical(n.phone[1])

\* C2 as stated: every bare 11-digit string starting with 8 normalizes to
\* "+7" + d[1:], and every 11-digit string starting with 7, with or without
\* a leading plus, to "+" + d, whatever the second digit.
C2_Original ==
    normRes # None =>
        /\ (Len(raw) = 11 /\ AllDecimal(raw) /\ raw[1] = "8")
              => normRes[1] = Success(<<"+", "7">> \o Tail(raw))
        /\ (Len(raw) = 11 /\ AllDecimal(raw) /\ raw[1] = "7")
              => normRes[1] = Success(<<"+">> \o raw)
        /\ (Len(raw) = 12 /\ raw[1] = "+" /\ AllDecimal(Tail(raw)) /\ raw[2] = "7")
              => normRes[1] = Success(raw)

\* C2 amended: the rewrite succeeds exactly when the second digit is 9;
\* with any other second digit normalize fails with INVALID_NORMALIZED.
C2_Amended ==
    normRes # None =>
        /\ (Len(raw) = 11 /\ AllDigits(raw) /\ raw[1] = "8")
              => normRes[1] = IF raw[2] = "9" THEN Success(<<"+", "7">> \o Tail(raw))
                              ELSE Failure("INVALID_NORMALIZED")
        /\ (Len(raw) = 11 /\ AllDigits(raw) /\ raw[1] = "7")
              => normRes[1] = IF raw[2] = "9" THEN Success(<<"+">> \o raw)
                              ELSE Failure("INVALID_NORMALIZED")
        /\ (Len(raw) = 12 /\ raw[1] = "+" /\ AllDigits(Tail(raw)) /\ raw[2] = "7")
              => normRes[1] = IF raw[3] = "9" THEN Success(raw)
                              ELSE Failure("INVALID_NORMALIZED")

C2_Witness ==
    /\ normRes # None
    /\ Len(raw) = 11 /\ AllDigits(raw) /\ raw[1] = "8" /\ raw[2] = "9"
    /\ normRes[1].error = None

HasLeadingPlus(r) == LET s == lstripSpace(r) IN s # <<>> /\ s[1] = "+"

\* C3: an input without a leading plus whose digits, separators and
\* surrounding whitespace dropped, are 10 digits starting with 9 normalizes
\* to "+7" followed by those digits.
C3_TenDigits ==
    normRes # None =>
        LET d == SelectSeq(raw, IsDigit) IN
        (~HasLeadingPlus(raw) /\ Len(d) = 10 /\ d[1] = "9")
            => normRes[1] = Success(<<"+", "7">> \o d)

C3_Witness ==
    /\ normRes # None
    /\ ~HasLeadingPlus(raw)
    /\ Len(raw) = 12 /\ raw[1] = " " /\ raw[3] = "-"
    /\ Len(SelectSeq(raw, IsDigit)) = 10 /\ raw[2] = "9"
    /\ normRes[1].error = None

FirstNonSpace(r) == Len(r) - Len(lstripSpace(r)) + 1

\* C10: a plus anywhere but at the first position of the stripped input is
\* ignored (the result is that of the input without it); a leading plus
\* followed by 11 digits starting with 8 or by 10 digits starting with 9
\* fails with UNSUPPORTED_FORMAT; an input without digits fails with
\* NO_DIGITS.
C10_PlusHandling ==
    normRes # None =>
        LET d == SelectSeq(raw, IsDigit) IN
        /\ \A i \in 1..Len(raw) :
              (raw[i] = "+" /\ i # FirstNonSpace(raw))
                  => normalize(RemoveAt(raw, i)) = normRes[1]
        /\ (HasLeadingPlus(raw) /\ Len(d) = 11 /\ d[1] = "8")
              => normRes[1] = Failure("UNSUPPORTED_FORMAT")
        /\ (HasLeadingPlus(raw) /\ Len(d) = 10 /\ d[1] = "9")
              => normRes[1] = Failure("UNSUPPORTED_FORMAT")
        /\ d = <<>> => normRes[1] = Failure("NO_DIGITS")

C10_Witness ==
    /\ normRes # None
    /\ ~HasLeadingPlus(raw)
    /\ \E i \in 2..Len(raw) : raw[i] = "+" /\ i # FirstNonSpace(raw)
    /\ normRes[1].error = None

\* ---------------------------------------------------------------------
\* Properties of the matcher (SpecMatch)
\* ---------------------------------------------------------------------

PhoneDigits == SelectSeq(normRes[1].phone[1], LAMBDA ch : ch # "+")

CodeDigits(i) == SelectSeq(items[i].code, IsDigit)

\* s and t agree on their last n characters
AgreeOnLast(s, t, n) ==
    /\ n <= Len(s) /\ n <= Len(t)
    /\ \A j \in 1..n : s[Len(s) - j + 1] = t[Len(t) - j + 1]

\* the longest common suffix length of s and t
LongestCommonSuffix(s, t) ==
    CHOOSE n \in 0..Len(t) : AgreeOnLast(s, t, n) /\ ~AgreeOnLast(s, t, n + 1)

MatchLen(i) == LongestCommonSuffix(PhoneDigits, CodeDigits(i))

IsFull(i) == MatchLen(i) = Len(CodeDigits(i))

\* (matchLength, isFullMatch) of entry i is lexicographically below that of j
PairLess(i, j) ==
    \/ MatchLen(i) < MatchLen(j)
    \/ MatchLen(i) = MatchLen(j) /\ ~IsFull(i) /\ IsFull(j)

\* the first entry among those with the largest pair
IsWinner(i) ==
    /\ \A j \in 1..Len(items) : ~PairLess(i, j)
    /\ \A j \in 1..(i - 1) : PairLess(j, i)

HasCandidate == \E i \in 1..Len(items) : MatchLen(i) >= 1

\* C4: when some entry shares a trailing digit with the phone, match
\* returns the first entry with the largest (matchLength, isFullMatch),
\* reports that entry's suffix length (at least 1) and usedFallback false.
C4_BestCandidate ==
    (outcome # None /\ HasCandidate) =>
        \E i \in 1..Len(items) :
            /\ IsWinner(i)
            /\ MatchLen(i) >= 1
            /\ outcome[1] = Returned(MatchResult(normRes[1].phone[1], items[i].code,
                                                 items[i].name, MatchLen(i), FALSE))

\* two different entries tie for the largest pair, a third with a longer
\* code matches as far but not fully, and the first of the tied is returned
C4_Witness ==
    /\ outcome # None
    /\ Len(items) = 3
    /\ \E i, j, k \in 1..3 :
          /\ i < j /\ items[i] # items[j]
          /\ IsWinner(i) /\ ~PairLess(j, i)
          /\ k < i /\ MatchLen(k) = MatchLen(i) /\ ~IsFull(k)
          /\ outcome[1].exc = None
          /\ outcome[1].ret[1].okved_name = items[i].name

\* C5: without a candidate match reports the fallback, and the same phone
\* and list give the same entry on every call, in this run of the program
\* or in another.
C5_Claim ==
    (outcome # None /\ items # <<>> /\ ~HasCandidate) =>
        /\ outcome[1].exc = None
        /\ outcome[1].ret[1].fallback_used
        /\ outcome[1].ret[1].match_length = 0
        /\ prev # None => outcome = prev

\* C6: for a canonical phone and a non-empty list match raises nothing and
\* returns an entry of the list; the fallback index lies in 0..n-1 whatever
\* the sign of the hash, and indexes the unfiltered list.
C6_NeverRaises ==
    (outcome # None /\ items # <<>>) =>
        /\ outcome[1].exc = None
        /\ \E i \in 1..Len(items) :
              /\ outcome[1].ret[1].okved_code = items[i].code
              /\ outcome[1].ret[1].okved_name = items[i].name
        /\ ~HasCandidate =>
              LET idx == fallbackIndex(seed, PhoneDigits, items) IN
              /\ idx \in 0..(Len(items) - 1)
              /\ outcome[1].ret[1].okved_code = items[idx + 1].code
              /\ outcome[1].ret[1].okved_name = items[idx + 1].name

\* the hash is negative and the fallback selects an entry without digits
C6_Witness ==
    /\ outcome # None /\ Len(items) >= 2 /\ ~HasCandidate
    /\ hash(seed, PhoneDigits) < 0
    /\ outcome[1].exc = None
    /\ outcome[1].ret[1].fallback_used
    /\ SelectSeq(outcome[1].ret[1].okved_code, IsDigit) = <<>>

\* ---------------------------------------------------------------------
\* Properties of the game (Spec)
\* ---------------------------------------------------------------------

\* C7: whatever the input and whatever the repository does, play returns
\* a GameResult with exactly one of error and match set (so main's assert
\* never fails).
C7_ExactlyOne ==
    /\ result # None =>
          /\ result[1].exc = None
          /\ (result[1].ret[1].error = None) # (result[1].ret[1].match = None)
    /\ pc \notin {"assertfail", "crash"}

\* play over a repository whose get_all returned an empty list
C7_Witness ==
    /\ result # None /\ got # None
    /\ got[1].out = Returned(<<>>)
    /\ result[1] = Returned(GameResult(Some("OKVED_EMPTY"), None))

\* C8 as stated: at most one fetch per repository and process.
C8_Original == fetches <= 1

\* the step called get_all on the repository
CalledGetAll == got' # None /\ got'[1].on = "repository"

\* C8 amended: once a load has succeeded no get_all fetches again and each
\* returns the cached list; a failed load caches nothing and the next
\* get_all fetches again; nothing else touches the cache.
C8_Amended ==
    [][ /\ (CalledGetAll /\ cache # None) =>
              /\ fetches' = fetches
              /\ cache' = cache
              /\ got'[1].resp = None
              /\ got'[1].out = Returned(cache[1])
        /\ (CalledGetAll /\ cache = None) =>
              /\ fetches' = fetches + 1
              /\ got'[1].resp # None
              /\ got'[1].out.exc # None => cache' = None
              /\ got'[1].out.exc = None => cache' = got'[1].out.ret
        /\ ~CalledGetAll => (cache' = cache /\ fetches' = fetches)
      ]_vars

\* main loaded the list in its initialisation and play was served from
\* the cache
C8_Witness ==
    /\ pc = "done" /\ fetches = 1 /\ cache # None
    /\ got # None /\ got[1].on = "repository" /\ got[1].resp = None
    /\ got[1].out = Returned(cache[1])
    /\ result # None /\ result[1].ret[1].match # None

Usable(e) == e.isDict /\ strip(e.code) # <<>> /\ strip(e.name) # <<>>

\* the last operation was a play that normalized its input and fetched an
\* array without a usable entry
FetchedNoUsable ==
    /\ result # None /\ normRes # None /\ normRes[1].error = None
    /\ got # None /\ got[1].resp # None
    /\ got[1].resp[1].kind = "array"
    /\ \A i \in 1..Len(got[1].resp[1].data) : ~Usable(got[1].resp[1].data[i])

\* the last operation was a play that normalized its input and whose fetch
\* or parse failed
FetchFailed ==
    /\ result # None /\ normRes # None /\ normRes[1].error = None
    /\ got # None /\ got[1].resp # None
    /\ got[1].resp[1].kind # "array"

\* C9 as stated: a failed load yields OKVED_LOAD_ERROR, a payload without
\* usable entries yields OKVED_EMPTY; no matcher is built and nothing is
\* raised.
C9_Original ==
    /\ FetchFailed =>
          result[1] = Returned(GameResult(Some("OKVED_LOAD_ERROR"), None)) /\ ~built
    /\ FetchedNoUsable =>
          result[1] = Returned(GameResult(Some("OKVED_EMPTY"), None)) /\ ~built

\* C9 amended: a payload without usable entries is a failed load like any
\* other and yields OKVED_LOAD_ERROR; OKVED_EMPTY is the answer to a
\* get_all that returns an empty list, which OkvedRepository never does;
\* in both cases no matcher is built and nothing is raised.
C9_Amended ==
    /\ (FetchFailed \/ FetchedNoUsable) =>
          /\ got[1].out = Raised("OkvedLoadError")
          /\ result[1] = Returned(GameResult(Some("OKVED_LOAD_ERROR"), None))
          /\ ~built
    /\ (result # None /\ got # None /\ got[1].out.exc = Some("OkvedLoadError")) =>
          result[1] = Returned(GameResult(Some("OKVED_LOAD_ERROR"), None)) /\ ~built
    /\ (result # None /\ got # None /\ got[1].out = Returned(<<>>)) =>
          /\ result[1] = Returned(GameResult(Some("OKVED_EMPTY"), None))
          /\ ~built
          /\ got[1].on = "injected"

C9_Witness ==
    /\ FetchedNoUsable
    /\ Len(got[1].resp[1].data) >= 1
    /\ result[1] = Returned(GameResult(Some("OKVED_LOAD_ERROR"), None))

====
